---- MODULE Spec2Model ----
(***************************************************************************)
(* LibraryLens: the acquisition-and-normalisation pipeline.                *)
(*                                                                         *)
(*   Spec         catalog ingestion: scripts/ingest_from_catalog.py main   *)
(*                with scripts/ingest_utils.py download_with_limit run     *)
(*                step by step (probe, request, open, read loop).          *)
(*   SpecCkan     API ingestion: scripts/ingest_ckan.py ingest_dataset,    *)
(*                one resource of the package per step.                    *)
(*   SpecLinks    scripts/ingest_utils.py extract_file_links, applied to   *)
(*                documents that grow one start tag at a time.             *)
(*   SpecGeo      scripts/convert_to_csv.py flatten_geojson and write_csv, *)
(*                applied to FeatureCollections that grow one feature at   *)
(*                a time.                                                  *)
(*   SpecConvert  the normaliser: scripts/convert_to_csv.py main and       *)
(*                process_manifest, one saved file per step.               *)
(*                                                                         *)
(* Byte counts are in units: the ceiling is SIZE_LIMIT units and one       *)
(* resp.read() returns at most CHUNK units.  URLs are records of their     *)
(* parts (scheme, host, path stem, path extension); the text of a URL is   *)
(* UrlText.  File names and notes are strings built the way the code       *)
(* builds them.                                                            *)
(***************************************************************************)
EXTENDS Integers, Sequences, FiniteSets, TLC

----------------------------------------------------------------------------
(* Bounds of the model *)

\* rows of the catalog table
MaxRows == 2
\* the size ceiling, in units (the code's value is 50 MiB)
SizeLimitUnits == 2
\* the most one resp.read() returns, in units (the code's value is 64 KiB)
ChunkUnits == 2
\* how far past the ceiling a body may go, in units
MaxOver == 1
\* resources of one package of the catalog API
MaxResources == 2
\* start tags of an HTML document
MaxTags == 3
\* features of a FeatureCollection
MaxFeatures == 2
\* manifest.json files under the raw-data root
MaxManifests == 2
\* saved_files of one manifest
MaxFiles == 2

----------------------------------------------------------------------------
(* ingest_utils.py: constants *)

DEFAULT_SIZE_LIMIT_BYTES == SizeLimitUnits

SIZE_LIMIT == SizeLimitUnits

CHUNK == ChunkUnits

FILE_EXTENSIONS ==
    {".csv", ".tsv", ".xls", ".xlsx", ".zip", ".json", ".geojson", ".shp",
     ".gdb", ".xml", ".kml", ".kmz", ".pdf"}

\* the extensions main() takes for a direct file link
DIRECT_EXTENSIONS ==
    <<".csv", ".tsv", ".xlsx", ".xls", ".zip", ".json", ".geojson">>

----------------------------------------------------------------------------
(* Strings and URLs *)

\* str.lower() on the extensions, tags and header names the model uses
Lower(s) ==
    CASE s = ".CSV" -> ".csv"
      [] s = ".Zip" -> ".zip"
      [] s = ".PDF" -> ".pdf"
      [] s = "A" -> "a"
      [] s = "Content-Length" -> "content-length"
      [] s = "CSV" -> "csv"
      [] s = "Report" -> "report"
      [] OTHER -> s

Range(s) == {s[k] : k \in 1..Len(s)}

IsPrefix(s, t) == Len(s) <= Len(t) /\ SubSeq(t, 1, Len(s)) = s

Min(a, b) == IF a < b THEN a ELSE b

\* a URL: scheme "" is a URL text with no "scheme://host" part
Url(scheme, host, stem, ext) ==
    [scheme |-> scheme, host |-> host, stem |-> stem, ext |-> ext]

UrlText(u) ==
    (IF u.scheme = "" THEN "" ELSE u.scheme \o "://" \o u.host) \o u.stem \o u.ext

\* pathlib.Path(urllib.parse.urlparse(url).path).suffix
PathSuffix(u) == u.ext

\* urllib.request.Request(url) raises ValueError("unknown url type") when the
\* text has no scheme
RequestRaises(u) == u.scheme = ""

slugify(text) ==
    CASE text = "Loans 2020" -> "loans-2020"
      [] text = "loans-2020" -> "loans-2020"
      [] text = "Branches" -> "branches"
      [] text = "" -> "dataset"
      [] OTHER -> text

domain_from_url(u) == IF u.scheme = "" THEN "" ELSE u.host

is_direct_file_url(u) == Lower(PathSuffix(u)) \in FILE_EXTENSIONS

\* main(): any(url.lower().endswith(ext) for ext in [...])
EndsWithDirectExt(u) ==
    \E k \in 1..Len(DIRECT_EXTENSIONS) : Lower(u.ext) = DIRECT_EXTENSIONS[k]

----------------------------------------------------------------------------
(* ingest_utils.py: LinkExtractor and extract_file_links *)

\* An href is a URL reference: kind "abs" carries its own scheme and host,
\* "root" is a path from the site root, "rel" a path beside the page.
Ref(kind, scheme, host, stem, ext) ==
    [kind |-> kind, scheme |-> scheme, host |-> host, stem |-> stem, ext |-> ext]

RefText(r) ==
    (IF r.kind = "abs" THEN r.scheme \o "://" \o r.host ELSE "") \o r.stem \o r.ext

\* html.unescape on the hrefs the model uses
Unescape(s) ==
    CASE s = "f&amp;1" -> "f&1"
      [] s = "/f&amp;1" -> "/f&1"
      [] OTHER -> s

\* the directory part of a page's path, which a relative reference replaces
DirOf(stem) ==
    CASE stem = "/page" -> "/"
      [] stem = "/data" -> "/"
      [] stem = "/sub/page" -> "/sub/"
      [] OTHER -> "/"

\* urllib.parse.urljoin(base_url, html.unescape(href))
urljoin(base, r) ==
    CASE r.kind = "abs" -> Url(r.scheme, r.host, Unescape(r.stem), r.ext)
      [] r.kind = "root" -> Url(base.scheme, base.host, Unescape(r.stem), r.ext)
      [] OTHER ->
           Url(base.scheme, base.host, DirOf(base.stem) \o Unescape(r.stem), r.ext)

\* a start tag of the document: its name and its href attribute, if any
Tag(tag, has_href, href) == [tag |-> tag, has_href |-> has_href, href |-> href]

\* LinkExtractor.handle_starttag: the links after one start tag
handle_starttag(base_url, links, t) ==
    IF Lower(t.tag) = "a" /\ t.has_href /\ RefText(t.href) # ""
    THEN Append(links, urljoin(base_url, t.href))
    ELSE links

\* LinkExtractor.feed: handle_starttag over the document's start tags
RECURSIVE feed(_, _, _)
feed(base_url, links, html_text) ==
    IF html_text = <<>> THEN links
    ELSE feed(base_url, handle_starttag(base_url, links, Head(html_text)),
              Tail(html_text))

\* [u for u in parser.links if is_direct_file_url(u)]
RECURSIVE FilterDirect(_)
FilterDirect(links) ==
    IF links = <<>> THEN <<>>
    ELSE IF is_direct_file_url(Head(links))
         THEN <<Head(links)>> \o FilterDirect(Tail(links))
         ELSE FilterDirect(Tail(links))

\* (mutant of DedupStep: no seen set, every link is kept)
DedupStepKeepAll(dedup, u) == Append(dedup, u)

\* the seen/dedup loop: one step, for link u
DedupStep(dedup, u) == IF u \in Range(dedup) THEN dedup ELSE Append(dedup, u)

RECURSIVE Dedup(_, _)
Dedup(dedup, links) ==
    IF links = <<>> THEN dedup
    ELSE Dedup(DedupStep(dedup, Head(links)), Tail(links))

extract_file_links(page_url, html_text) ==
    Dedup(<<>>, FilterDirect(feed(page_url, <<>>, html_text)))

----------------------------------------------------------------------------
(* State *)

VARIABLES
    rows,        \* the catalog table: a sequence of [name, url]
    rowIdx,      \* main(): the row the for loop is at (1-based)
    pc,          \* main(): where the run is
    manifest,    \* main(): the manifest dict of the current row
    out_dir,     \* main(): <<dom, slug>> of the current row
    links,       \* main(): the links found on the row's page
    i,           \* main(): enumerate index into links[:3]
    call,        \* download_with_limit: the arguments and locals of the call
    ret,         \* download_with_limit: the tuple the last call returned
    files,       \* the raw-data tree: the paths of the files in it
    raised,      \* the exception that left main(), "" while none has
    okSet,       \* file names whose download returned ok=True for this row
    started,     \* indexes of the rows that reached the manifest (non-empty URL)
    wrote,       \* indexes of the rows whose manifest.json was written; the
                 \* content written is manifest, as it is right after the write
    attempts,    \* the download_with_limit calls main() made for the current
                 \* row, in order: "direct", or the link's text
    \* ingest_ckan.py, ingest_dataset
    pkg,         \* the resources of the package, as the catalog API lists them
    ck_pc,       \* where ingest_dataset is
    ck_idx,      \* the resource its for loop is at (1-based)
    ck_manifest, \* its manifest dict (the resources list)
    ck_files,    \* the dataset's directory: file name -> bytes in the file
    ck_written,  \* the manifest.json it wrote, <<>> before it has
    \* ingest_utils.py, extract_file_links
    lx_page_url, \* the page's URL
    lx_html,     \* the document: its start tags, in order
    lx_result,   \* extract_file_links(lx_page_url, lx_html)
    \* convert_to_csv.py, flatten_geojson and write_csv
    geo_feats,   \* obj['features']
    geo_csv,     \* the CSV written for it: [header, rows]
    \* convert_to_csv.py, main and process_manifest
    openpyxl,    \* whether the openpyxl import succeeded
    cv_pc,       \* where main() is
    cv_m,        \* manifests process_manifest has returned for
    cv_saved,    \* the saved_files of the manifest being processed
    cv_f,        \* the saved file its for loop is at (1-based)
    cv_outputs,  \* process_manifest: outputs
    cv_all,      \* main(): len(all_outputs)
    cv_raised    \* the exception that left main(), "" while none has

catalogVars ==
    <<rows, rowIdx, pc, manifest, out_dir, links, i, call, ret, files,
      raised, okSet, started, wrote, attempts>>

ckanVars == <<pkg, ck_pc, ck_idx, ck_manifest, ck_files, ck_written>>

linkVars == <<lx_page_url, lx_html, lx_result>>

geoVars == <<geo_feats, geo_csv>>

convVars ==
    <<openpyxl, cv_pc, cv_m, cv_saved, cv_f, cv_outputs, cv_all, cv_raised>>

vars == <<catalogVars, ckanVars, linkVars, geoVars, convVars>>

notCatalog == <<ckanVars, linkVars, geoVars, convVars>>

notCkan == <<catalogVars, linkVars, geoVars, convVars>>

notLinks == <<catalogVars, ckanVars, geoVars, convVars>>

notGeo == <<catalogVars, ckanVars, linkVars, convVars>>

notConv == <<catalogVars, ckanVars, linkVars, geoVars>>

----------------------------------------------------------------------------
(* The world outside: the catalog, the servers' answers *)

NoUrl == Url("", "", "", "")

\* the rows a catalog may hold: [Dataset Name, Direct Link]
CatalogRows ==
    { [name |-> "Loans 2020", url |-> Url("https", "h", "/data", ".csv")],
      [name |-> "loans-2020", url |-> Url("https", "h", "/page", "")],
      [name |-> "", url |-> Url("", "", "h/data", ".csv")],
      [name |-> "Branches", url |-> NoUrl] }

NoRef == Ref("rel", "", "", "", "")

\* the documents a page fetch may return
HtmlDocs ==
    { <<>>,
      << Tag("link", TRUE, Ref("rel", "", "", "style", ".csv")),
         Tag("a", FALSE, NoRef),
         Tag("a", TRUE, Ref("rel", "", "", "about", "")) >>,
      << Tag("a", TRUE, Ref("rel", "", "", "f1", ".csv")) >>,
      << Tag("a", TRUE, Ref("rel", "", "", "f1", ".csv")),
         Tag("A", TRUE, Ref("abs", "https", "h", "/f1", ".csv")),
         Tag("a", TRUE, Ref("root", "", "", "/f2", ".Zip")),
         Tag("a", TRUE, Ref("rel", "", "", "f3", ".pdf")),
         Tag("a", TRUE, Ref("rel", "", "", "f4", ".json")) >> }

\* a header value as the server sent it: decimal digits (of value n), other
\* text, a character str.isdigit() accepts and int() rejects, or nothing
HValue(kind, n) == [kind |-> kind, n |-> n]

DeclaredSizes == {SIZE_LIMIT, SIZE_LIMIT + 1}

HeaderValues ==
    {HValue("digits", n) : n \in DeclaredSizes}
        \cup {HValue("text", 0), HValue("superscript", 0), HValue("empty", 0)}

\* the response headers of the probe, as dict(resp.headers.items()) keeps
\* them: the names are the server's spelling
NoHeaders == [k \in {} |-> HValue("empty", 0)]

ProbeHeaders ==
    {NoHeaders}
        \cup {[k \in {"Content-Length"} |-> v] : v \in HeaderValues}
        \cup {[k \in {"content-length"} |-> HValue("digits", n)] : n \in DeclaredSizes}

\* the longest body a server sends, in units
MaxBody == SIZE_LIMIT + MaxOver

----------------------------------------------------------------------------
(* ingest_utils.py: head_request and download_with_limit *)

None == HValue("none", 0)

\* dict.get: the value under exactly this key, or None
HeadersGet(headers, key) == IF key \in DOMAIN headers THEN headers[key] ELSE None

Truthy(v) == v.kind \notin {"none", "empty"}

\* str.isdigit()
IsDigit(v) == v.kind \in {"digits", "superscript"}

\* int(content_length) raises ValueError
IntRaises(v) == v.kind # "digits"

\* head_request(url): the headers it returns; {} stands for the except branch
\* (the request failed, as it always does for a URL text with no scheme)
HeadResponses(u) == IF RequestRaises(u) THEN {NoHeaders} ELSE ProbeHeaders

\* lines 96-100: what the probe's headers decide
\*   "raise"  int() raises out of the function
\*   "skip"   return False, "skipped: size ...", size
\*   "stream" go on to the streaming download
ProbeVerdict(headers, size_limit) ==
    LET content_length == HeadersGet(headers, "Content-Length")
    IN  IF Truthy(content_length) /\ IsDigit(content_length)
        THEN IF IntRaises(content_length) THEN "raise"
             ELSE IF content_length.n > size_limit THEN "skip"
             ELSE "stream"
        ELSE "stream"

SkippedSizeMsg(size, size_limit) ==
    "skipped: size " \o ToString(size) \o " > limit " \o ToString(size_limit)

SkippedStreamMsg(size_limit) ==
    "skipped: streamed size > limit " \o ToString(size_limit)

\* line 112: the running total trips the ceiling
OverLimit(total, size_limit) == total > size_limit

Path(dir, filename) == <<dir[1], dir[2], filename>>

\* open(dest, 'wb'): the file is there (its bytes are the call's total)
OpenFile(fs, path) == fs \cup {path}

\* (mutant of Unlink: the partial file is left behind)
UnlinkNothing(fs, path) == fs

\* dest.unlink(missing_ok=True)
Unlink(fs, path) == fs \ {path}

Dest == Path(out_dir, call.filename)

\* the call's frame on entry
NewCall(u, filename, who, size_limit) ==
    [url |-> u, filename |-> filename, who |-> who, size_limit |-> size_limit,
     headers |-> NoHeaders, requested |-> FALSE, opened |-> FALSE,
     tripped |-> FALSE, total |-> 0]

NoCall == NewCall(NoUrl, "", "", 0)

NoRet == [ok |-> FALSE, msg |-> "", bytes |-> 0]

\* the call returns (ok, msg, bytes) to main()
Return(ok, msg, bytes) ==
    /\ ret' = [ok |-> ok, msg |-> msg, bytes |-> bytes]
    /\ pc' = IF call.who = "direct" THEN "direct_ret" ELSE "link_ret"

\* an exception leaves the call, and main() with it
Raise(e) ==
    /\ raised' = e
    /\ pc' = "crashed"

\* lines 91-102: mkdir, the probe, the Content-Length test, Request(url)
DlProbe ==
    /\ pc = "probe"
    /\ \E headers \in HeadResponses(call.url) :
         LET verdict == ProbeVerdict(headers, call.size_limit)
         IN  /\ call' = [call EXCEPT !.headers = headers]
             /\ CASE verdict = "raise" ->
                       /\ Raise("ValueError: invalid literal for int()")
                       /\ UNCHANGED ret
                  [] verdict = "skip" ->
                       /\ Return(FALSE,
                                 SkippedSizeMsg(headers["Content-Length"].n,
                                                call.size_limit),
                                 headers["Content-Length"].n)
                       /\ UNCHANGED raised
                  [] OTHER ->
                       IF RequestRaises(call.url)
                       THEN /\ Raise("ValueError: unknown url type")
                            /\ UNCHANGED ret
                       ELSE /\ pc' = "open"
                            /\ UNCHANGED <<ret, raised>>
    /\ UNCHANGED <<rows, rowIdx, manifest, out_dir, links, i, files, okSet,
                   started, wrote, attempts>>
    /\ UNCHANGED notCatalog

\* line 105: urlopen(req) issues the streaming request, open(dest, 'wb')
\* creates the file; either may raise into the except branch of line 119
\* (headers is not read after line 100: the frame drops it here)
DlOpen ==
    /\ pc = "open"
    /\ \/ /\ call' = [call EXCEPT !.requested = TRUE, !.headers = NoHeaders]
          /\ Return(FALSE, "error: URLError", 0)
          /\ UNCHANGED files
       \/ /\ call' = [call EXCEPT !.requested = TRUE, !.headers = NoHeaders]
          /\ Return(FALSE, "error: URLError", 0)
          /\ UNCHANGED files
       \/ /\ call' = [call EXCEPT !.requested = TRUE, !.opened = TRUE,
                                   !.headers = NoHeaders]
          /\ files' = OpenFile(files, Dest)
          /\ pc' = "read"
          /\ UNCHANGED ret
    /\ UNCHANGED <<rows, rowIdx, manifest, out_dir, links, i, raised, okSet,
                   started, wrote, attempts>>
    /\ UNCHANGED notCatalog

\* lines 106-121: one turn of the read loop
DlRead ==
    /\ pc = "read"
    /\ \/ \* resp.read or f.write raises: the partial file stays
          /\ Return(FALSE, "error: URLError", call.total)
          /\ UNCHANGED <<call, files>>
       \/ \* not chunk: the body is at its end
          /\ Return(TRUE, "ok", call.total)
          /\ UNCHANGED <<call, files>>
       \/ \E n \in 1..Min(CHUNK, MaxBody - call.total) :
            LET total == call.total + n
            IN  IF OverLimit(total, call.size_limit)
                THEN /\ call' = [call EXCEPT !.total = total, !.tripped = TRUE]
                     /\ files' = Unlink(files, Dest)
                     /\ Return(FALSE, SkippedStreamMsg(call.size_limit), total)
                ELSE /\ call' = [call EXCEPT !.total = total]
                     /\ UNCHANGED <<pc, ret, files>>
    /\ UNCHANGED <<rows, rowIdx, manifest, out_dir, links, i, raised, okSet,
                   started, wrote, attempts>>
    /\ UNCHANGED notCatalog

----------------------------------------------------------------------------
(* ingest_from_catalog.py: main *)

\* (mutant of SavedAfter: the file name is recorded whatever the outcome)
SavedAlways(saved_files, filename, ok) == Append(saved_files, filename)

\* if ok: manifest['saved_files'].append(filename)
SavedAfter(saved_files, filename, ok) ==
    IF ok THEN Append(saved_files, filename) ELSE saved_files

\* line 57: manifest['notes'].append(f"direct:{msg}")
NotesAfterDirect(notes, msg) == Append(notes, "direct:" \o msg)

\* (mutant of NotesAfterLink: the list is assigned, not appended to)
NotesAfterLinkAssigned(notes, link, msg) == <<UrlText(link) \o ": " \o msg>>

\* line 86: manifest['notes'].append(f"{link}: {msg}")
NotesAfterLink(notes, link, msg) == Append(notes, UrlText(link) \o ": " \o msg)

\* links[:3]
FirstThree(s) == SubSeq(s, 1, Min(3, Len(s)))

DirectFilename(slug, u) == slug \o PathSuffix(u)

LinkFilename(slug, k, link) == slug \o "-" \o ToString(k + 1) \o PathSuffix(link)

\* (out_dir / 'manifest.json').write_text(json.dumps(manifest, indent=2)),
\* and the loop goes to the next row (links and i are dead until the next
\* page fetch assigns them)
WriteAndNext(m) ==
    /\ manifest' = m
    /\ wrote' = wrote \cup {rowIdx}
    /\ links' = <<>>
    /\ i' = 0
    /\ rowIdx' = rowIdx + 1
    /\ pc' = "row"

\* lines 36-55: the head of the for loop, up to the direct download's call
RowStart ==
    /\ pc = "row"
    /\ rowIdx <= Len(rows)
    /\ LET name == IF rows[rowIdx].name = "" THEN "dataset" ELSE rows[rowIdx].name
           url == rows[rowIdx].url
           dom == domain_from_url(url)
           slug == slugify(name)
       IN  IF UrlText(url) = ""
           THEN /\ rowIdx' = rowIdx + 1
                /\ UNCHANGED <<pc, manifest, out_dir, call, okSet, started,
                               attempts>>
           ELSE /\ out_dir' = <<dom, slug>>
                /\ manifest' = [dataset_name |-> name, source_url |-> UrlText(url),
                                domain |-> dom, saved_files |-> <<>>,
                                notes |-> <<>>]
                /\ okSet' = {}
                /\ started' = started \cup {rowIdx}
                /\ IF EndsWithDirectExt(url)
                   THEN /\ call' = NewCall(url, DirectFilename(slug, url),
                                           "direct", SIZE_LIMIT)
                        /\ attempts' = <<"direct">>
                        /\ pc' = "probe"
                   ELSE /\ pc' = "fetch"
                        /\ attempts' = <<>>
                        /\ UNCHANGED call
                /\ UNCHANGED rowIdx
    /\ UNCHANGED <<rows, links, i, ret, files, raised, wrote>>
    /\ UNCHANGED notCatalog

\* lines 57-66: after the direct download's call
AfterDirect ==
    /\ pc = "direct_ret"
    /\ LET noted == [manifest EXCEPT !.notes = NotesAfterDirect(@, ret.msg)]
       IN  IF ret.ok
           THEN /\ WriteAndNext([noted EXCEPT
                       !.saved_files = SavedAfter(@, call.filename, ret.ok)])
                /\ okSet' = okSet \cup {call.filename}
           ELSE /\ manifest' = noted
                /\ pc' = "fetch"
                /\ UNCHANGED <<wrote, rowIdx, okSet, links, i>>
    /\ call' = NoCall
    /\ ret' = NoRet
    /\ UNCHANGED <<rows, out_dir, files, raised, started, attempts>>
    /\ UNCHANGED notCatalog

\* lines 69-84: the page fetch, the link extraction, and either the manifest
\* of a row with no link or the first link's call
FetchPage ==
    /\ pc = "fetch"
    /\ \/ \* fetch_html raises (it always does for a URL text with no scheme)
          /\ WriteAndNext([manifest EXCEPT
                 !.notes = Append(@, "error: fetch page failed: URLError")])
          /\ UNCHANGED <<call, attempts>>
       \/ \E html_text \in HtmlDocs :
            LET url == rows[rowIdx].url
                found == extract_file_links(url, html_text)
            IN  /\ ~RequestRaises(url)
                /\ IF found = <<>>
                   THEN /\ WriteAndNext([manifest EXCEPT
                               !.notes = Append(@, "no direct file links found on page")])
                        /\ UNCHANGED <<call, attempts>>
                   ELSE /\ links' = found
                        /\ i' = 0
                        /\ call' = NewCall(found[1],
                                           LinkFilename(out_dir[2], 0, found[1]),
                                           "link", SIZE_LIMIT)
                        /\ attempts' = Append(attempts, UrlText(found[1]))
                        /\ pc' = "probe"
                        /\ UNCHANGED <<manifest, wrote, rowIdx>>
    /\ UNCHANGED <<rows, out_dir, ret, files, raised, okSet, started>>
    /\ UNCHANGED notCatalog

\* lines 85-92: after a link's call; the next link's call, or the manifest
AfterLink ==
    /\ pc = "link_ret"
    /\ LET link == FirstThree(links)[i + 1]
           m == [manifest EXCEPT
                   !.notes = NotesAfterLink(@, link, ret.msg),
                   !.saved_files = SavedAfter(@, call.filename, ret.ok)]
       IN  /\ okSet' = IF ret.ok THEN okSet \cup {call.filename} ELSE okSet
           /\ IF i + 1 < Len(FirstThree(links))
              THEN /\ manifest' = m
                   /\ i' = i + 1
                   /\ call' = NewCall(FirstThree(links)[i + 2],
                                      LinkFilename(out_dir[2], i + 1,
                                                   FirstThree(links)[i + 2]),
                                      "link", SIZE_LIMIT)
                   /\ attempts' = Append(attempts,
                                         UrlText(FirstThree(links)[i + 2]))
                   /\ pc' = "probe"
                   /\ UNCHANGED <<wrote, rowIdx, links>>
              ELSE /\ WriteAndNext(m)
                   /\ call' = NoCall
                   /\ UNCHANGED attempts
    /\ ret' = NoRet
    /\ UNCHANGED <<rows, out_dir, files, raised, started>>
    /\ UNCHANGED notCatalog

\* lines 94-95: the loop is over
Finish ==
    /\ pc = "row"
    /\ rowIdx > Len(rows)
    /\ pc' = "done"
    /\ UNCHANGED <<rows, rowIdx, manifest, out_dir, links, i, call, ret, files,
                   raised, okSet, started, wrote, attempts>>
    /\ UNCHANGED notCatalog

NoManifest ==
    [dataset_name |-> "", source_url |-> "", domain |-> "",
     saved_files |-> <<>>, notes |-> <<>>]

\* the catalog ingestion before main() runs
CatalogIdle ==
    /\ rowIdx = 1
    /\ pc = "row"
    /\ manifest = NoManifest
    /\ out_dir = <<"", "">>
    /\ links = <<>>
    /\ i = 0
    /\ call = NoCall
    /\ ret = NoRet
    /\ files = {}
    /\ raised = ""
    /\ okSet = {}
    /\ started = {}
    /\ wrote = {}
    /\ attempts = <<>>

\* ingest_dataset before it runs
CkanIdle ==
    /\ pkg = <<>>
    /\ ck_pc = "start"
    /\ ck_idx = 1
    /\ ck_manifest = [resources |-> <<>>]
    /\ ck_files = [f \in {} |-> 0]
    /\ ck_written = <<>>

\* the link extractor before a document is fed
LinksIdle ==
    /\ lx_page_url = Url("https", "h", "/page", "")
    /\ lx_html = <<>>
    /\ lx_result = <<>>

\* the GeoJSON converter before a collection is read
GeoIdle ==
    /\ geo_feats = <<>>
    /\ geo_csv = [header |-> <<>>, rows |-> <<>>]

\* the normaliser before main() runs
ConvIdle ==
    /\ openpyxl = TRUE
    /\ cv_pc = "main"
    /\ cv_m = 0
    /\ cv_saved = <<>>
    /\ cv_f = 1
    /\ cv_outputs = <<>>
    /\ cv_all = 0
    /\ cv_raised = ""

Init ==
    /\ rows \in [1..MaxRows -> CatalogRows]
    /\ CatalogIdle
    /\ CkanIdle
    /\ LinksIdle
    /\ GeoIdle
    /\ ConvIdle

Next ==
    \/ RowStart
    \/ DlProbe
    \/ DlOpen
    \/ DlRead
    \/ AfterDirect
    \/ FetchPage
    \/ AfterLink
    \/ Finish

Spec == Init /\ [][Next]_vars

----------------------------------------------------------------------------
(* Catalog ingestion: properties *)

\* the state right after a manifest.json was written: manifest is its content
JustWrote == pc = "row" /\ (rowIdx - 1) \in wrote

Returned == pc \in {"direct_ret", "link_ret"}

C1_StateInv ==
    JustWrote =>
        \A k \in 1..Len(manifest.saved_files) :
            /\ Path(out_dir, manifest.saved_files[k]) \in files
            /\ manifest.saved_files[k] \in okSet

C1_AppendOnly ==
    (pc # "row") => IsPrefix(manifest.saved_files, manifest'.saved_files)

\* C1: whenever a dataset's manifest.json is written, every file name in its
\* saved_files names a file that exists in the dataset's directory and whose
\* download_with_limit call of this run returned ok=True; within the run of
\* one row saved_files changes only by appends.
C1_SavedFilesExistAndOk == []C1_StateInv /\ [][C1_AppendOnly]_vars

\* C1 witness: a manifest was just written with two saved files on disk.
C1_Witness ==
    /\ JustWrote
    /\ Len(manifest.saved_files) >= 2
    /\ \A k \in 1..Len(manifest.saved_files) :
           Path(out_dir, manifest.saved_files[k]) \in files

DeclaredOver(headers, size_limit) ==
    \E k \in DOMAIN headers :
        /\ Lower(k) = "content-length"
        /\ headers[k].kind = "digits"
        /\ headers[k].n > size_limit

DeclaredOverSize(headers, size_limit) ==
    headers[CHOOSE k \in DOMAIN headers : Lower(k) = "content-length"
                                          /\ headers[k].n > size_limit].n

\* C3: if the probe returns a numeric Content-Length greater than size_limit,
\* the call returns ok=False reporting the declared size, no streaming
\* request is issued and the destination file is not created by the call.
C3_DeclaredOverLimitSkips ==
    DeclaredOver(call.headers, call.size_limit) =>
        /\ pc # "open"
        /\ ~call.requested
        /\ ~call.opened
        /\ Returned =>
             /\ ret.ok = FALSE
             /\ ret.bytes = DeclaredOverSize(call.headers, call.size_limit)

\* C3, for the one spelling the code looks up: a Content-Length under exactly
\* the key 'Content-Length' that is numeric and over the limit ends the call
\* before any streaming request.
C3_ExactKeySkips ==
    ( /\ "Content-Length" \in DOMAIN call.headers
      /\ call.headers["Content-Length"].kind = "digits"
      /\ call.headers["Content-Length"].n > call.size_limit )
        => /\ Returned
           /\ ret.ok = FALSE
           /\ ret.bytes = call.headers["Content-Length"].n
           /\ ~call.requested
           /\ ~call.opened

\* C4: download_with_limit never raises to its caller: no exception leaves
\* the call (and main() with it); every outcome is a returned tuple.
C4_NeverRaises == raised = ""

\* C6: every catalog row with a non-empty URL ends with its manifest.json
\* written, whose keys are exactly dataset_name, source_url, domain,
\* saved_files, notes.
C6_EveryRowWritesManifest ==
    /\ pc \in {"done", "crashed"} =>
           \A k \in 1..Len(rows) : UrlText(rows[k].url) # "" => k \in wrote
    /\ JustWrote =>
           DOMAIN manifest =
               {"dataset_name", "source_url", "domain", "saved_files", "notes"}

----------------------------------------------------------------------------
(* ingest_ckan.py: download_file, safe_filename, ingest_dataset *)

\* Python's None, in a field that otherwise holds a string
PyNone == "<None>"

\* safe_filename: lower, runs outside [a-z0-9._-] to "-", strip "-._"
safe_filename(name) ==
    LET t == Lower(name)
    IN  CASE t = "q1 data" -> "q1-data"
          [] t = "" -> "file"
          [] OTHER -> t

\* a resource of the package: url and name "" stand for an absent or empty
\* field
Resource(id, name, format, url) ==
    [id |-> id, name |-> name, format |-> format, url |-> url]

Resources ==
    { Resource("r1", "Report", "CSV", Url("https", "h", "/r", ".csv")),
      Resource("r2", "report", "CSV", Url("https", "h", "/get", "")),
      Resource("r3", "q1 data", "", NoUrl),
      Resource("r4", "", "", Url("https", "h", "/get", "")) }

\* the packages package_show may return: up to MaxResources resources
Packages ==
    UNION {[1..n -> Resources] : n \in 0..MaxResources}

\* what download_file(url, dest) may do: urlopen raises (no file), resp.read
\* raises (the file was opened: it is empty), or the whole body, of any
\* length, is written
Outcome(kind, bytes) == [kind |-> kind, bytes |-> bytes]

DownloadOutcomes ==
    {Outcome("urlopen_raises", 0), Outcome("read_raises", 0)}
        \cup {Outcome("ok", b) : b \in 0..MaxBody}

\* lines 91-96 of ingest_dataset: name, fmt
ResName(res) ==
    IF res.name # "" THEN res.name ELSE IF res.id # "" THEN res.id ELSE "resource"

ResFmt(res) == Lower(res.format)

\* lines 107-116: base + (ext or "")
CkFilename(res) ==
    LET base == safe_filename(ResName(res))
        path_ext == PathSuffix(res.url)
        fmt == ResFmt(res)
        ext == IF path_ext # "" THEN path_ext
               ELSE IF fmt # "" THEN "." \o fmt
               ELSE ""
    IN  base \o ext

\* the status dict of one resource, as it is when it is appended
ResourceStatus(res, outcome) ==
    LET status == [id |-> res.id, name |-> ResName(res), format |-> ResFmt(res),
                   url |-> UrlText(res.url), saved_as |-> PyNone, ok |-> FALSE,
                   error |-> PyNone]
    IN  IF UrlText(res.url) = ""
        THEN [status EXCEPT !.error = "missing url"]
        ELSE IF outcome.kind = "ok"
             THEN [status EXCEPT !.saved_as = CkFilename(res), !.ok = TRUE]
             ELSE [status EXCEPT !.error = "URLError"]

\* (mutant of AfterResource: a resource with no url leaves no entry)
AfterResourceSkipMissing(resources, res, outcome) ==
    IF UrlText(res.url) = "" THEN resources
    ELSE Append(resources, ResourceStatus(res, outcome))

\* manifest["resources"] after the loop body ran for res
AfterResource(resources, res, outcome) ==
    Append(resources, ResourceStatus(res, outcome))

\* download_file: the directory after the call
FilesAfter(fs, res, outcome) ==
    IF UrlText(res.url) = "" \/ outcome.kind = "urlopen_raises" THEN fs
    ELSE [f \in (DOMAIN fs) \cup {CkFilename(res)} |->
            IF f = CkFilename(res) THEN outcome.bytes ELSE fs[f]]

\* lines 79-80: slug_from_url and ckan_package_show; either raises out of
\* ingest_dataset (main() reports it), or the package is there
CkStart ==
    /\ ck_pc = "start"
    /\ \/ /\ ck_pc' = "failed"
          /\ UNCHANGED pkg
       \/ /\ pkg' \in Packages
          /\ ck_pc' = "loop"
    /\ UNCHANGED <<ck_idx, ck_manifest, ck_files, ck_written>>
    /\ UNCHANGED notCkan

\* lines 88-125: the loop body, for one resource
CkResource ==
    /\ ck_pc = "loop"
    /\ ck_idx <= Len(pkg)
    /\ \E outcome \in DownloadOutcomes :
         /\ ck_manifest' = [ck_manifest EXCEPT
                !.resources = AfterResource(@, pkg[ck_idx], outcome)]
         /\ ck_files' = FilesAfter(ck_files, pkg[ck_idx], outcome)
    /\ ck_idx' = ck_idx + 1
    /\ UNCHANGED <<pkg, ck_pc, ck_written>>
    /\ UNCHANGED notCkan

\* lines 126-129: the manifest is written and returned
CkWrite ==
    /\ ck_pc = "loop"
    /\ ck_idx > Len(pkg)
    /\ ck_written' = <<ck_manifest>>
    /\ ck_pc' = "done"
    /\ UNCHANGED <<pkg, ck_idx, ck_manifest, ck_files>>
    /\ UNCHANGED notCkan

InitCkan ==
    /\ rows = <<>>
    /\ CatalogIdle
    /\ CkanIdle
    /\ LinksIdle
    /\ GeoIdle
    /\ ConvIdle

NextCkan ==
    \/ CkStart
    \/ CkResource
    \/ CkWrite

SpecCkan == InitCkan /\ [][NextCkan]_vars

----------------------------------------------------------------------------
(* API ingestion: properties *)

\* C5: the size ceiling is applied to every download: every resource an
\* ingestion path records as saved has at most SIZE_LIMIT bytes in its file.
\* (Stated here for API ingestion; catalog ingestion is C5_CatalogWithinCeiling.)
C5_SavedWithinCeiling ==
    \A k \in 1..Len(ck_manifest.resources) :
        ck_manifest.resources[k].ok =>
            ck_files[ck_manifest.resources[k].saved_as] <= SIZE_LIMIT

\* C5, catalog ingestion only: a call that returns ok=True transferred at
\* most size_limit bytes.
C5_CatalogWithinCeiling ==
    (Returned /\ ret.ok) => ret.bytes <= call.size_limit /\ ret.bytes = call.total

\* C7: the manifest's resources list has exactly one status entry per
\* resource of the package, in the package's order, whatever the outcome;
\* an entry has ok=True exactly when saved_as is set and error is None.
C7_OneEntryPerResource ==
    /\ Len(ck_manifest.resources) = ck_idx - 1
    /\ ck_pc = "done" => /\ ck_written = <<ck_manifest>>
                         /\ Len(ck_manifest.resources) = Len(pkg)
    /\ \A k \in 1..Len(ck_manifest.resources) :
         LET e == ck_manifest.resources[k]
         IN  /\ e.id = pkg[k].id
             /\ e.url = UrlText(pkg[k].url)
             /\ e.ok <=> (e.saved_as # PyNone /\ e.error = PyNone)

\* C7 witness: a written manifest with an entry for every resource of a full
\* package, one of them saved and one of them not.
C7_Witness ==
    /\ ck_pc = "done"
    /\ Len(ck_written[1].resources) = MaxResources
    /\ \E a, b \in 1..Len(ck_written[1].resources) :
         /\ ck_written[1].resources[a].ok
         /\ ~ck_written[1].resources[b].ok

----------------------------------------------------------------------------
(* extract_file_links on growing documents *)

PageUrls == {Url("https", "h", "/page", ""), Url("https", "h", "/sub/page", "")}

\* the start tags a document is made of
StartTags ==
    { Tag("a", TRUE, Ref("rel", "", "", "f1", ".csv")),
      Tag("A", TRUE, Ref("abs", "https", "h", "/f1", ".csv")),
      Tag("a", TRUE, Ref("root", "", "", "/f2", ".Zip")),
      Tag("a", TRUE, Ref("rel", "", "", "f&amp;1", ".pdf")),
      Tag("a", TRUE, Ref("rel", "", "", "f&1", ".pdf")),
      Tag("a", TRUE, Ref("rel", "", "", "about", ".html")),
      Tag("a", TRUE, NoRef),
      Tag("a", FALSE, NoRef),
      Tag("link", TRUE, Ref("rel", "", "", "style", ".csv")) }

\* one more start tag in the document, and the links extracted from it
LxFeed ==
    /\ Len(lx_html) < MaxTags
    /\ \E t \in StartTags :
         /\ lx_html' = Append(lx_html, t)
         /\ lx_result' = extract_file_links(lx_page_url, Append(lx_html, t))
    /\ UNCHANGED lx_page_url
    /\ UNCHANGED notLinks

InitLinks ==
    /\ rows = <<>>
    /\ CatalogIdle
    /\ CkanIdle
    /\ lx_page_url \in PageUrls
    /\ lx_html = <<>>
    /\ lx_result = <<>>
    /\ GeoIdle
    /\ ConvIdle

NextLinks == LxFeed

SpecLinks == InitLinks /\ [][NextLinks]_vars

\* the anchor start tags that carry a non-empty href
IsAnchor(t) == Lower(t.tag) = "a" /\ t.has_href /\ RefText(t.href) # ""

\* the positions in the document of the anchors that resolve to u
Occurrences(u) ==
    {k \in 1..Len(lx_html) :
        IsAnchor(lx_html[k]) /\ urljoin(lx_page_url, lx_html[k].href) = u}

SetMin(S) == CHOOSE x \in S : \A y \in S : x <= y

\* C8: extract_file_links returns exactly the resolved anchor hrefs whose
\* path extension, lower-cased, is in the allowlist, each URL once, in the
\* order of their first occurrence in the document.
C8_ExactlyAllowlistedOnceInOrder ==
    /\ \A a, b \in 1..Len(lx_result) : lx_result[a] = lx_result[b] => a = b
    /\ \A a \in 1..Len(lx_result) :
         /\ Lower(lx_result[a].ext) \in FILE_EXTENSIONS
         /\ Occurrences(lx_result[a]) # {}
    /\ \A k \in 1..Len(lx_html) :
         (IsAnchor(lx_html[k])
            /\ Lower(urljoin(lx_page_url, lx_html[k].href).ext) \in FILE_EXTENSIONS)
           => urljoin(lx_page_url, lx_html[k].href) \in Range(lx_result)
    /\ \A a, b \in 1..Len(lx_result) :
         a < b => SetMin(Occurrences(lx_result[a])) < SetMin(Occurrences(lx_result[b]))

\* C8 witness: a document in which one URL occurs twice (once relative, once
\* absolute), a later allowlisted link follows, and both are returned once.
C8_Witness ==
    /\ Len(lx_result) = 2
    /\ Cardinality(Occurrences(lx_result[1])) = 2
    /\ Len(lx_html) = 3

----------------------------------------------------------------------------
(* convert_to_csv.py: _stringify, write_csv, flatten_geojson *)

\* a JSON value: a number, a string or null
IntV(n) == [t |-> "int", v |-> ToString(n)]

StrV(x) == [t |-> "str", v |-> x]

NoneV == [t |-> "none", v |-> ""]

\* _stringify(value): '' for None, the decimal text of a number, the string
_stringify(value) == IF value.t = "none" THEN "" ELSE value.v

\* a JSON object in key order: a sequence of <<key, value>>, keys distinct
ObjKeys(o) == {o[k][1] : k \in 1..Len(o)}

\* dict.get(key): the value, or None
ObjGet(o, key) ==
    IF key \in ObjKeys(o)
    THEN o[CHOOSE k \in 1..Len(o) : o[k][1] = key][2]
    ELSE NoneV

\* a geometry: kind "null" (absent or null), "empty" ({}), or its type
\* f.get('geometry') or {}
GeomOrEmpty(g) == IF g \in {"null", "empty"} THEN "empty" ELSE g

\* geom.get('type') or ''
GeomType(g) == IF GeomOrEmpty(g) = "empty" THEN "" ELSE g

\* json.dumps(geom)
JsonDumps(g) ==
    IF GeomOrEmpty(g) = "empty" THEN "{}"
    ELSE "{\"type\": \"" \o g \o "\"}"

Feature(geometry, properties) ==
    [geometry |-> geometry, properties |-> properties]

\* lines 86-91, for one feature: the keys not seen yet are appended
RECURSIVE KeysOfProps(_, _)
KeysOfProps(keys, props) ==
    IF props = <<>> THEN keys
    ELSE KeysOfProps(IF Head(props)[1] \in Range(keys) THEN keys
                     ELSE Append(keys, Head(props)[1]),
                     Tail(props))

\* lines 84-91: the property keys of all features, in first-seen order
RECURSIVE CollectKeys(_, _)
CollectKeys(keys, feats) ==
    IF feats = <<>> THEN keys
    ELSE CollectKeys(KeysOfProps(keys, Head(feats).properties), Tail(feats))

\* lines 96-98: the row dict of one feature; a property key assigned after
\* the two geometry entries replaces an entry of the same name
FeatureRow(f, keys) ==
    [k \in {"geometry_type", "geometry"} \cup Range(keys) |->
        IF k \in Range(keys) THEN ObjGet(f.properties, k)
        ELSE IF k = "geometry_type" THEN StrV(GeomType(f.geometry))
        ELSE StrV(JsonDumps(f.geometry))]

\* flatten_geojson(obj): rows and fieldnames
flatten_geojson(feats) ==
    LET keys == CollectKeys(<<>>, feats)
    IN  [rows |-> [k \in 1..Len(feats) |-> FeatureRow(feats[k], keys)],
         fieldnames |-> <<"geometry_type", "geometry">> \o keys]

\* csv.DictWriter.writerow({k: _stringify(row.get(k)) for k in fieldnames}):
\* one cell per field name, in the order of fieldnames
CsvRow(row, fieldnames) ==
    [c \in 1..Len(fieldnames) |->
        IF fieldnames[c] \in DOMAIN row THEN _stringify(row[fieldnames[c]])
        ELSE ""]

\* write_csv(rows, fieldnames, dest): the header line and the data lines
write_csv(rs, fieldnames) ==
    [header |-> fieldnames,
     rows |-> [k \in 1..Len(rs) |-> CsvRow(rs[k], fieldnames)]]

Geometries == {"Point", "LineString", "null"}

PropertySets ==
    { <<>>,
      << <<"a", IntV(1)>> >>,
      << <<"b", StrV("x")>> >>,
      << <<"b", StrV("y")>>, <<"a", NoneV>> >>,
      << <<"geometry", StrV("g")>> >>,
      << <<"a", IntV(2)>>, <<"geometry_type", StrV("t")>> >> }

Features == {Feature(g, ps) : g \in Geometries, ps \in PropertySets}

\* convert_json, lines 111-116, on a FeatureCollection with one more feature
GeoConvert ==
    /\ Len(geo_feats) < MaxFeatures
    /\ \E f \in Features :
         LET flat == flatten_geojson(Append(geo_feats, f))
         IN  /\ geo_feats' = Append(geo_feats, f)
             /\ geo_csv' = write_csv(flat.rows, flat.fieldnames)
    /\ UNCHANGED notGeo

InitGeo ==
    /\ rows = <<>>
    /\ CatalogIdle
    /\ CkanIdle
    /\ LinksIdle
    /\ GeoIdle
    /\ ConvIdle

NextGeo == GeoConvert

SpecGeo == InitGeo /\ [][NextGeo]_vars

\* the property keys of the collection, each once, in first-seen order
UnionKeys == CollectKeys(<<>>, geo_feats)

\* C9: the header is geometry_type, geometry, then the union of the
\* features' property keys in first-seen order; each feature yields one row
\* with one cell per header column, whose first two cells are the feature's
\* geometry type and serialized geometry and whose other cells are the
\* feature's value for the column's key, or empty when it lacks the key.
C9_RowsMatchHeader ==
    geo_feats # <<>> =>
      /\ geo_csv.header = <<"geometry_type", "geometry">> \o UnionKeys
      /\ Len(geo_csv.rows) = Len(geo_feats)
      /\ \A k \in 1..Len(geo_feats) :
           /\ Len(geo_csv.rows[k]) = Len(geo_csv.header)
           /\ geo_csv.rows[k][1] = GeomType(geo_feats[k].geometry)
           /\ geo_csv.rows[k][2] = JsonDumps(geo_feats[k].geometry)
           /\ \A c \in 1..Len(UnionKeys) :
                geo_csv.rows[k][2 + c] =
                    _stringify(ObjGet(geo_feats[k].properties, UnionKeys[c]))

\* C9, for collections none of whose property keys is geometry or
\* geometry_type: the same statement.
C9_HoldsWithoutReservedKeys ==
    ({"geometry", "geometry_type"} \cap Range(UnionKeys) = {}) => C9_RowsMatchHeader

----------------------------------------------------------------------------
(* convert_to_csv.py: the converters, process_manifest, main *)

\* A file: the stem and extension of its name, whether it is on disk, what
\* its bytes hold (kind) and, for an archive, its members in rglob order.
\*   .csv .tsv       "text"
\*   .xlsx           "workbook" (one sheet, "Sheet 1") | "corrupt"
\*   .json .geojson  "malformed" | "feature_collection" | "array_objects"
\*                   | "array_mixed" ([{"a": 1}, 2]) | "array_scalars" ([1, 2])
\*   .zip            "archive" | "bad_member" (a member fails its CRC)
\*                   | "corrupt" (not a zip file)
Artifact(stem, ext, exists, kind, members) ==
    [stem |-> stem, ext |-> ext, exists |-> exists, kind |-> kind,
     members |-> members]

File(stem, ext, kind) == Artifact(stem, ext, TRUE, kind, <<>>)

\* what a converter hands back: its outputs, or the exception it raised
Outs(outs) == [outs |-> outs, raised |-> ""]

Raises(e) == [outs |-> <<>>, raised |-> e]

\* re.sub(r'[^A-Za-z0-9_-]+', '-', sheet).strip('-') or 'sheet'
SafeSheet(sheet) ==
    CASE sheet = "Sheet 1" -> "Sheet-1"
      [] sheet = "" -> "sheet"
      [] OTHER -> sheet

\* convert_xlsx(src, dest_dir)
convert_xlsx(src) ==
    IF ~openpyxl THEN Outs(<<>>)
    ELSE IF src.kind # "workbook" THEN Raises("BadZipFile")
    ELSE Outs(<<src.stem \o "-" \o SafeSheet("Sheet 1") \o ".csv">>)

\* convert_json(src, dest)
convert_json(src, dest) ==
    CASE src.kind = "malformed" -> Outs(<<>>)
      [] src.kind = "feature_collection" -> Outs(<<dest>>)
      [] src.kind = "array_objects" -> Outs(<<dest>>)
      [] src.kind = "array_mixed" -> Raises("AttributeError")
      [] OTHER -> Outs(<<>>)

\* convert_zip, lines 157-168: the outputs of one member p of archive src
ZipMember(src, p) ==
    LET ext == Lower(p.ext)
    IN  CASE ext = ".csv" -> Outs(<<src.stem \o "-" \o p.stem \o p.ext>>)
          [] ext = ".tsv" -> Outs(<<src.stem \o "-" \o p.stem \o ".csv">>)
          [] ext = ".xlsx" /\ openpyxl -> convert_xlsx(p)
          [] ext \in {".json", ".geojson"} ->
               convert_json(p, src.stem \o "-" \o p.stem \o ".csv")
          [] OTHER -> Outs(<<>>)

\* the for loop over the members: it stops at the first that raises
RECURSIVE ZipMembers(_, _, _)
ZipMembers(src, members, outputs) ==
    IF members = <<>> THEN Outs(outputs)
    ELSE LET r == ZipMember(src, Head(members))
         IN  IF r.raised # "" THEN r
             ELSE ZipMembers(src, Tail(members), outputs \o r.outs)

\* convert_zip(src, dest_dir)
convert_zip(src) ==
    IF src.kind \in {"corrupt", "bad_member"} THEN Raises("BadZipFile")
    ELSE ZipMembers(src, src.members, <<>>)

\* process_manifest, lines 180-201: the outputs of one saved file
ProcessFile(src) ==
    LET ext == Lower(src.ext)
    IN  IF ~src.exists THEN Outs(<<>>)
        ELSE CASE ext = ".csv" -> Outs(<<src.stem \o src.ext>>)
               [] ext = ".tsv" -> Outs(<<src.stem \o ".csv">>)
               [] ext = ".xlsx" -> convert_xlsx(src)
               [] ext \in {".json", ".geojson"} ->
                    convert_json(src, src.stem \o ".csv")
               [] ext = ".zip" -> convert_zip(src)
               [] OTHER -> Outs(<<>>)

\* the files a manifest's saved_files may name
Artifacts ==
    { File("loans", ".csv", "text"),
      File("loans", ".tsv", "text"),
      File("book", ".xlsx", "workbook"),
      File("book", ".xlsx", "corrupt"),
      File("areas", ".geojson", "feature_collection"),
      File("data", ".json", "malformed"),
      File("data", ".json", "array_objects"),
      File("data", ".json", "array_mixed"),
      File("report", ".pdf", "text"),
      Artifact("gone", ".csv", FALSE, "text", <<>>),
      File("pack", ".zip", "corrupt"),
      Artifact("pack", ".zip", TRUE, "bad_member",
               <<File("a", ".csv", "text")>>),
      Artifact("pack", ".zip", TRUE, "archive",
               <<File("a", ".csv", "text"), File("readme", ".txt", "text")>>),
      Artifact("pack", ".zip", TRUE, "archive",
               <<File("data", ".json", "malformed"),
                 File("book", ".xlsx", "workbook"),
                 Artifact("inner", ".zip", TRUE, "archive",
                          <<File("a", ".csv", "text")>>)>>) }

SavedLists == UNION {[1..n -> Artifacts] : n \in 0..MaxFiles}

\* main(), line 207-208: the next manifest.json of the rglob; process_manifest
\* reads it (lines 173-178)
CvManifest ==
    /\ cv_pc = "main"
    /\ cv_m < MaxManifests
    /\ cv_saved' \in SavedLists
    /\ cv_f' = 1
    /\ cv_outputs' = <<>>
    /\ cv_pc' = "manifest"
    /\ UNCHANGED <<openpyxl, cv_m, cv_all, cv_raised>>
    /\ UNCHANGED notConv

\* process_manifest, lines 179-201: the loop body, for one saved file
CvFile ==
    /\ cv_pc = "manifest"
    /\ cv_f <= Len(cv_saved)
    /\ LET r == ProcessFile(cv_saved[cv_f])
       IN  IF r.raised # ""
           THEN /\ cv_raised' = r.raised
                /\ cv_pc' = "crashed"
                /\ UNCHANGED <<cv_f, cv_outputs>>
           ELSE /\ cv_outputs' = cv_outputs \o r.outs
                /\ cv_f' = cv_f + 1
                /\ UNCHANGED <<cv_pc, cv_raised>>
    /\ UNCHANGED <<openpyxl, cv_m, cv_saved, cv_all>>
    /\ UNCHANGED notConv

\* process_manifest returns; main(), line 209
CvReturn ==
    /\ cv_pc = "manifest"
    /\ cv_f > Len(cv_saved)
    /\ cv_all' = cv_all + Len(cv_outputs)
    /\ cv_m' = cv_m + 1
    /\ cv_pc' = "main"
    /\ UNCHANGED <<openpyxl, cv_saved, cv_f, cv_outputs, cv_raised>>
    /\ UNCHANGED notConv

\* main(), lines 210-211: the rglob is exhausted
CvDone ==
    /\ cv_pc = "main"
    /\ cv_pc' = "done"
    /\ UNCHANGED <<openpyxl, cv_m, cv_saved, cv_f, cv_outputs, cv_all, cv_raised>>
    /\ UNCHANGED notConv

InitConvert ==
    /\ rows = <<>>
    /\ CatalogIdle
    /\ CkanIdle
    /\ LinksIdle
    /\ GeoIdle
    /\ openpyxl \in BOOLEAN
    /\ cv_pc = "main"
    /\ cv_m = 0
    /\ cv_saved = <<>>
    /\ cv_f = 1
    /\ cv_outputs = <<>>
    /\ cv_all = 0
    /\ cv_raised = ""

NextConvert ==
    \/ CvManifest
    \/ CvFile
    \/ CvReturn
    \/ CvDone

SpecConvert == InitConvert /\ [][NextConvert]_vars

\* C10: a parse failure of one artifact is not propagated: no exception
\* leaves process_manifest and main(), which go on to every later saved file
\* and manifest.
C10_ParseFailureNotPropagated == cv_raised = ""

\* C10, for the one failure the code catches: a file whose text is not JSON
\* yields no output and the loop goes on to the next saved file.
C10_MalformedJsonSkipped ==
    [][(cv_pc = "manifest" /\ cv_f <= Len(cv_saved)
          /\ cv_saved[cv_f].kind = "malformed")
        => (cv_pc' = "manifest" /\ cv_f' = cv_f + 1 /\ cv_outputs' = cv_outputs)]_vars

\* process_manifest's loop body converts an archive without raising
ZipConverted ==
    /\ cv_pc = "manifest"
    /\ cv_f <= Len(cv_saved)
    /\ cv_saved[cv_f].exists
    /\ Lower(cv_saved[cv_f].ext) = ".zip"
    /\ cv_pc' = "manifest"
    /\ cv_f' = cv_f + 1

\* the outputs that step appended
NewOutputs == SubSeq(cv_outputs', Len(cv_outputs) + 1, Len(cv_outputs'))

\* the delimited-text files an archive holds, at any depth
RECURSIVE TextLeaves(_)
TextLeaves(members) ==
    IF members = <<>> THEN 0
    ELSE LET p == Head(members)
         IN  (IF Lower(p.ext) \in {".csv", ".tsv"} THEN 1
              ELSE IF Lower(p.ext) = ".zip" THEN TextLeaves(p.members)
              ELSE 0) + TextLeaves(Tail(members))

\* C11: converting a .zip dispatches every contained file by its extension,
\* nested archives included (so every delimited-text file at any depth gives
\* an output), and every output derived from a member carries the archive's
\* stem as a prefix.
C11_ZipMembersDispatchedAndPrefixed ==
    [][ZipConverted =>
         /\ \A k \in 1..Len(NewOutputs) :
               IsPrefix(cv_saved[cv_f].stem \o "-", NewOutputs[k])
         /\ Len(NewOutputs) >= TextLeaves(cv_saved[cv_f].members)]_vars

\* C11, the prefix alone: every output derived from a member carries the
\* archive's stem as a prefix.
C11_OutputsPrefixed ==
    [][ZipConverted =>
         \A k \in 1..Len(NewOutputs) :
           IsPrefix(cv_saved[cv_f].stem \o "-", NewOutputs[k])]_vars

\* C11, the nested archive alone: a delimited-text file inside an archive
\* inside the archive gives an output.
C11_NestedZipDispatched ==
    [][ZipConverted =>
         Len(NewOutputs) >= TextLeaves(cv_saved[cv_f].members)]_vars

\* C11, the part the code keeps: an archive holding one .csv and one .txt
\* yields exactly one CSV, named with the archive's stem, and a member of an
\* unsupported type yields nothing.
C11_CsvAndTxtYieldOneCsv ==
    [][(ZipConverted
          /\ cv_saved[cv_f].members
                = <<File("a", ".csv", "text"), File("readme", ".txt", "text")>>)
        => NewOutputs = <<cv_saved[cv_f].stem \o "-a.csv">>]_vars

----------------------------------------------------------------------------
(* Target filenames within one dataset *)

\* C12: within one dataset's ingestion the filenames derived for two distinct
\* resources differ, so a later download never overwrites a file saved for
\* an earlier resource. API ingestion: two entries of the manifest, for
\* resources of different ids, both saved, name different files.
C12_DistinctResourcesDistinctFiles ==
    \A a, b \in 1..Len(ck_manifest.resources) :
        LET ra == ck_manifest.resources[a]
            rb == ck_manifest.resources[b]
        IN  (a # b /\ ra.id # rb.id /\ ra.ok /\ rb.ok)
                => ra.saved_as # rb.saved_as

\* C12, catalog ingestion: while a download of a row is in progress, its
\* destination is none of the files already saved for that row.
C12_CatalogDistinctFiles ==
    pc \in {"probe", "open", "read"}
        => call.filename \notin Range(manifest.saved_files)

----------------------------------------------------------------------------
(* Catalog ingestion: the direct path and the notes *)

\* C13: when the catalog URL of a row is already a direct file URL, the page
\* fetch and the link extraction are never invoked for that row, whether the
\* direct download succeeded or failed.
C13_DirectRowNeverFetchesPage ==
    pc = "fetch" => ~EndsWithDirectExt(rows[rowIdx].url)

\* C13, for the outcome on which the code does so: after a direct download
\* that succeeded, the manifest is written with that one note and the loop
\* goes to the next row.
C13_DirectSuccessMovesOn ==
    [][(pc = "direct_ret" /\ ret.ok)
        => (/\ pc' = "row"
            /\ rowIdx' = rowIdx + 1
            /\ rowIdx \in wrote'
            /\ Len(manifest'.notes) = 1)]_vars

\* the tag a note of a download attempt starts with
NoteTag(attempt) == IF attempt = "direct" THEN "direct:" ELSE attempt \o ": "

\* the notes main() appends for the page itself, not for a download
PageNotes ==
    {"error: fetch page failed: URLError", "no direct file links found on page"}

\* note k of the written manifest is the note of attempt k
NotesFollowAttempts ==
    \A k \in 1..Len(attempts) :
        /\ k <= Len(manifest.notes)
        /\ IsPrefix(NoteTag(attempts[k]), manifest.notes[k])

\* C14 as stated: in a written manifest the notes are exactly one per
\* download attempt, in attempt order, each tagged with the link or with
\* direct: as many notes as download_with_limit calls.
C14_OneNotePerAttempt ==
    JustWrote =>
        /\ Len(manifest.notes) = Len(attempts)
        /\ NotesFollowAttempts

\* C14 amended: in a written manifest the notes start with one note per
\* download attempt, in attempt order, each tagged with the link or with
\* direct; one untagged note about the page follows them exactly when the
\* row's page fetch failed or found no link (no link was attempted and no
\* file was saved), so the notes are as many as the calls, or one more.
C14_AttemptNotesThenPageNote ==
    JustWrote =>
        LET n == Len(attempts)
            pageNoted == /\ \A k \in 1..n : attempts[k] = "direct"
                         /\ manifest.saved_files = <<>>
        IN  /\ NotesFollowAttempts
            /\ Len(manifest.notes) = (IF pageNoted THEN n + 1 ELSE n)
            /\ pageNoted => manifest.notes[n + 1] \in PageNotes

\* C14 witness: a manifest written after a failed direct download and three
\* link downloads, with four notes.
C14_Witness ==
    /\ JustWrote
    /\ Len(attempts) = 4
    /\ attempts[1] = "direct"
    /\ Len(manifest.notes) = 4

\* C14 witness of the page note: a manifest written after a failed direct
\* download and a page with no link, with two notes for one call.
C14_PageNoteWitness ==
    /\ JustWrote
    /\ Len(attempts) = 1
    /\ Len(manifest.notes) = 2

====
